---- MODULE Spec2Model ----
(***************************************************************************)
(* Model of the group / leaf metadata classes of                           *)
(* org.openmcptools.extensions.groups (common.py, groupext.py).            *)
(*                                                                         *)
(* Objects are identified by their identity (the strings "G1", "T1", ...), *)
(* which is what Python's `is` compares; `name` is the constructor         *)
(* argument each object was built with, which is what `==` compares        *)
(* (AbstractBase.__eq__).  Python lists are sequences; list.append and     *)
(* list.remove are modelled by what they do to the list object.            *)
(***************************************************************************)
EXTENDS Integers, Sequences, FiniteSets, TLC

\* ---------------------------------------------------------------- bounds

\* Cap on the number of entries held by all child collections together.
MaxEntries == 2

\* Cap on the number of entries held by all parent_groups lists together.
MaxParentGroups == 2

\* ------------------------------------------------------------- universe

None == "None"

Groups == {"G1", "G2", "G3"}
Tools == {"T1", "T2"}
Prompts == {"P1"}
Resources == {"R1"}
PromptArguments == {"A1"}
Leaves == Tools \cup Prompts \cup Resources
Entities == Groups \cup Leaves \cup PromptArguments

\* instances of groupext.Group (a pydantic model, unrelated to common.Group)
ExtGroups == {"X1", "X2", "X3"}

\* x.__class__
Class(x) ==
    IF x \in Groups THEN "Group"
    ELSE IF x \in Tools THEN "Tool"
    ELSE IF x \in Prompts THEN "Prompt"
    ELSE IF x \in Resources THEN "Resource"
    ELSE IF x \in PromptArguments THEN "PromptArgument"
    ELSE "NoneType"

\* AbstractBase.DEFAULT_SEPARATOR
DEFAULT_SEPARATOR == "."

\* Constructor arguments: every object gets a name of its own, or some
\* objects of the same class are built with the same name.
DistinctNames ==
    [x \in Entities |->
        CASE x = "G1" -> "a" [] x = "G2" -> "b" [] x = "G3" -> "c"
          [] x = "T1" -> "t" [] x = "T2" -> "u"
          [] x = "P1" -> "p"
          [] x = "R1" -> "r"
          [] x = "A1" -> "x"]

SharedNames ==
    [x \in Entities |->
        CASE x = "G1" -> "a" [] x = "G2" -> "b" [] x = "G3" -> "b"
          [] x = "T1" -> "t" [] x = "T2" -> "t"
          [] x = "P1" -> "p"
          [] x = "R1" -> "r"
          [] x = "A1" -> "x"]

NameChoices == {DistinctNames, SharedNames}

\* Group(name) leaves the separator at its default; Group(name, "/") sets it.
DefaultSeparators == [g \in Groups |-> DEFAULT_SEPARATOR]
MixedSeparators == [g \in Groups |-> IF g = "G3" THEN "/" ELSE DEFAULT_SEPARATOR]
SeparatorChoices == {DefaultSeparators, MixedSeparators}

\* names of the groupext.Group instances
ExtName == [x \in ExtGroups |-> CASE x = "X1" -> "a" [] x = "X2" -> "b" [] x = "X3" -> "c"]
ExtSeparators == {".", "/"}

\* ---------------------------------------------------------------- state

VARIABLES
    name,              \* AbstractBase._name
    name_separator,    \* AbstractBase._name_separator (of groups)
    parent,            \* Group._parent
    child_groups,      \* Group._child_groups
    child_tools,       \* Group._child_tools
    child_prompts,     \* Group._child_prompts
    child_resources,   \* Group._child_resources
    parent_groups,     \* AbstractLeaf._parent_groups
    prompt_arguments,  \* Prompt._prompt_arguments
    ext_parent,        \* groupext.Group.parent
    held,              \* the list object a reader obtained from a getter
    last               \* the last call made: operation, receiver, argument, outcome

vars == <<name, name_separator, parent, child_groups, child_tools, child_prompts,
          child_resources, parent_groups, prompt_arguments, ext_parent, held, last>>

\* ------------------------------------------------------ Python built-ins

\* As Eq, but the classes of the two objects are not compared.
Eq_by_name_only(self, other) ==
    IF self = other THEN TRUE
    ELSE IF other = None THEN FALSE
    ELSE name[self] = name[other]

\* AbstractBase.__eq__(self, other)
Eq(self, other) ==
    IF self = other THEN TRUE
    ELSE IF other = None THEN FALSE
    ELSE IF Class(self) # Class(other) THEN FALSE
    ELSE name[self] = name[other]

\* list.index semantics used by list.remove: the first position whose item is
\* x or equals x (item == x calls AbstractBase.__eq__); 0 when there is none.
IndexOf(list, x) ==
    IF \E i \in 1..Len(list) : Eq(list[i], x)
    THEN CHOOSE i \in 1..Len(list) :
            /\ Eq(list[i], x)
            /\ \A j \in 1..(i - 1) : ~Eq(list[j], x)
    ELSE 0

\* list.remove(x): deletes the first matching item; ValueError when none matches.
ListRemove(list, x) ==
    LET i == IndexOf(list, x) IN
    IF i = 0 THEN [raised |-> TRUE, list |-> list]
    ELSE [raised |-> FALSE,
          list |-> SubSeq(list, 1, i - 1) \o SubSeq(list, i + 1, Len(list))]

\* x in list, by identity
Member(list, x) == \E i \in 1..Len(list) : list[i] = x

RECURSIVE SumLen(_, _)
SumLen(f, S) ==
    IF S = {} THEN 0
    ELSE LET x == CHOOSE y \in S : TRUE IN Len(f[x]) + SumLen(f, S \ {x})

\* number of entries in all child collections
Entries ==
    SumLen(child_groups, Groups) + SumLen(child_tools, Groups)
    + SumLen(child_prompts, Groups) + SumLen(child_resources, Groups)
    + SumLen(prompt_arguments, Prompts)

\* number of entries in all parent_groups lists
ParentEntries == SumLen(parent_groups, Leaves)

\* no list obtained yet
NoList == [owner |-> None, field |-> None]

Call(op, self, arg, ret, exc) ==
    [op |-> op, self |-> self, arg |-> arg, ret |-> ret, exc |-> exc]

\* ----------------------------------------------------------------- Init

Init ==
    /\ name \in NameChoices
    /\ name_separator \in SeparatorChoices
    /\ parent = [g \in Groups |-> None]
    /\ child_groups = [g \in Groups |-> <<>>]
    /\ child_tools = [g \in Groups |-> <<>>]
    /\ child_prompts = [g \in Groups |-> <<>>]
    /\ child_resources = [g \in Groups |-> <<>>]
    /\ parent_groups = [l \in Leaves |-> <<>>]
    /\ prompt_arguments = [p \in Prompts |-> <<>>]
    /\ ext_parent = [x \in ExtGroups |-> None]
    /\ held = NoList
    /\ last = Call("init", None, None, None, "")

\* ----------------------------------------------------------- Group tree

\* Group.set_parent
set_parent(self, p) ==
    /\ parent' = [parent EXCEPT ![self] = p]
    /\ last' = Call("set_parent", self, p, None, "")
    /\ UNCHANGED <<name, name_separator, child_groups, child_tools, child_prompts,
                   child_resources, parent_groups, prompt_arguments, ext_parent, held>>

\* As add_child_group, but the child's parent pointer is not set.
add_child_group_parent_unset(self, child_group) ==
    /\ Entries < MaxEntries
    /\ child_groups' = [child_groups EXCEPT ![self] = Append(@, child_group)]
    /\ last' = Call("add_child_group", self, child_group, TRUE, "")
    /\ UNCHANGED <<name, name_separator, parent, child_tools, child_prompts,
                   child_resources, parent_groups, prompt_arguments, ext_parent, held>>

\* As add_child_group, but the child is first taken out of every other
\* group's child list (a move instead of a second registration).
add_child_group_moves_child(self, child_group) ==
    /\ Entries < MaxEntries
    /\ child_groups' =
         [g \in Groups |->
            IF g = self THEN Append(child_groups[g], child_group)
            ELSE SelectSeq(child_groups[g], LAMBDA x : x # child_group)]
    /\ parent' = [parent EXCEPT ![child_group] = self]
    /\ last' = Call("add_child_group", self, child_group, TRUE, "")
    /\ UNCHANGED <<name, name_separator, child_tools, child_prompts,
                   child_resources, parent_groups, prompt_arguments, ext_parent, held>>

\* Group.add_child_group
add_child_group(self, child_group) ==
    /\ Entries < MaxEntries
    /\ child_groups' = [child_groups EXCEPT ![self] = Append(@, child_group)]
    /\ IF child_group = None
       THEN \* None._parent = self: AttributeError, after the append
            /\ UNCHANGED parent
            /\ last' = Call("add_child_group", self, None, None, "AttributeError")
       ELSE /\ parent' = [parent EXCEPT ![child_group] = self]
            /\ last' = Call("add_child_group", self, child_group, TRUE, "")
    /\ UNCHANGED <<name, name_separator, child_tools, child_prompts,
                   child_resources, parent_groups, prompt_arguments, ext_parent, held>>

\* As remove_child_group, but the child's parent is cleared only when it is the
\* receiver.
remove_child_group_clears_own_child(self, child_group) ==
    LET r == ListRemove(child_groups[self], child_group) IN
    /\ IF r.raised
       THEN /\ UNCHANGED <<child_groups, parent>>
            /\ last' = Call("remove_child_group", self, child_group, FALSE, "")
       ELSE /\ child_groups' = [child_groups EXCEPT ![self] = r.list]
            /\ parent' = IF parent[child_group] = self
                         THEN [parent EXCEPT ![child_group] = None]
                         ELSE parent
            /\ last' = Call("remove_child_group", self, child_group, TRUE, "")
    /\ UNCHANGED <<name, name_separator, child_tools, child_prompts,
                   child_resources, parent_groups, prompt_arguments, ext_parent, held>>

\* Group.remove_child_group
remove_child_group(self, child_group) ==
    LET r == ListRemove(child_groups[self], child_group) IN
    /\ IF r.raised
       THEN /\ UNCHANGED <<child_groups, parent>>
            /\ last' = Call("remove_child_group", self, child_group, FALSE, "")
       ELSE /\ child_groups' = [child_groups EXCEPT ![self] = r.list]
            /\ parent' = [parent EXCEPT ![child_group] = None]
            /\ last' = Call("remove_child_group", self, child_group, TRUE, "")
    /\ UNCHANGED <<name, name_separator, child_tools, child_prompts,
                   child_resources, parent_groups, prompt_arguments, ext_parent, held>>

\* Outcome of a call that returns a value or raises.
Returned(v) == [exc |-> "", val |-> v]
Raised(e) == [exc |-> e, val |-> None]

\* Group.get_root.  `active` holds the receivers that have a frame on the call
\* stack: a call on a receiver that is already active repeats that frame's
\* work on unchanged state and so never returns; the interpreter ends the
\* unbounded recursion with RecursionError.
RECURSIVE get_root(_, _)
get_root(self, active) ==
    LET p == parent[self] IN
    IF p = None THEN Returned(self)
    ELSE IF p \in active THEN Raised("RecursionError")
    ELSE get_root(p, active \cup {p})

\* As _get_fully_qualified_name_recursive, but every level is joined with the
\* separator of the group being processed instead of the receiver's.
RECURSIVE fqn_recursive_separator_of_tg(_, _, _)
fqn_recursive_separator_of_tg(self, tg, active) ==
    LET p == parent[tg] IN
    IF p # None
    THEN IF p \in active THEN Raised("RecursionError")
         ELSE LET parent_name == fqn_recursive_separator_of_tg(self, p, active \cup {p}) IN
              IF parent_name.exc # "" THEN parent_name
              ELSE Returned(parent_name.val \o name_separator[tg] \o name[tg])
    ELSE Returned(name[tg])

\* As _get_fully_qualified_name_recursive, but every level is joined with the
\* separator of the parent it hangs under instead of the receiver's.
RECURSIVE fqn_recursive_separator_of_parent(_, _, _)
fqn_recursive_separator_of_parent(self, tg, active) ==
    LET p == parent[tg] IN
    IF p # None
    THEN IF p \in active THEN Raised("RecursionError")
         ELSE LET parent_name == fqn_recursive_separator_of_parent(self, p, active \cup {p}) IN
              IF parent_name.exc # "" THEN parent_name
              ELSE Returned(parent_name.val \o name_separator[p] \o name[tg])
    ELSE Returned(name[tg])

\* Group._get_fully_qualified_name_recursive(self, sb, tg); `active` as in get_root.
RECURSIVE _get_fully_qualified_name_recursive(_, _, _)
_get_fully_qualified_name_recursive(self, tg, active) ==
    LET p == parent[tg] IN
    IF p # None
    THEN IF p \in active THEN Raised("RecursionError")
         ELSE LET parent_name == _get_fully_qualified_name_recursive(self, p, active \cup {p}) IN
              IF parent_name.exc # "" THEN parent_name
              ELSE Returned(parent_name.val \o name_separator[self] \o name[tg])
    ELSE Returned(name[tg])

\* Group.get_fully_qualified_name
get_fully_qualified_name(self) == _get_fully_qualified_name_recursive(self, self, {self})

\* a call of Group.get_root
call_get_root(self) ==
    LET r == get_root(self, {self}) IN
    /\ last' = Call("get_root", self, None, r.val, r.exc)
    /\ UNCHANGED <<name, name_separator, parent, child_groups, child_tools, child_prompts,
                   child_resources, parent_groups, prompt_arguments, ext_parent, held>>

\* a call of Group.get_fully_qualified_name
call_get_fully_qualified_name(self) ==
    LET r == get_fully_qualified_name(self) IN
    /\ last' = Call("get_fully_qualified_name", self, None, r.val, r.exc)
    /\ UNCHANGED <<name, name_separator, parent, child_groups, child_tools, child_prompts,
                   child_resources, parent_groups, prompt_arguments, ext_parent, held>>

NextTree ==
    \/ \E g \in Groups, p \in Groups \cup {None} : set_parent(g, p)
    \/ \E p \in Groups, c \in Groups : add_child_group(p, c)
    \/ \E p \in Groups, c \in Groups : remove_child_group(p, c)
    \/ \E g \in Groups : call_get_root(g)
    \/ \E g \in Groups : call_get_fully_qualified_name(g)

\* add_child_group / remove_child_group and the queries, without set_parent
NextChildGroups ==
    \/ \E p \in Groups, c \in Groups : add_child_group(p, c)
    \/ \E p \in Groups, c \in Groups : remove_child_group(p, c)
    \/ \E g \in Groups : call_get_root(g)
    \/ \E g \in Groups : call_get_fully_qualified_name(g)

Spec == Init /\ [][NextTree]_vars

SpecChildGroups == Init /\ [][NextChildGroups]_vars

\* ------------------------------------------------------ leaves of groups

\* As AbstractLeaf_add_parent_group, but the group is put in front.
AbstractLeaf_add_parent_group_in_front(self, parent_group) ==
    [parent_groups EXCEPT ![self] = <<parent_group>> \o @]

\* AbstractLeaf.add_parent_group (parent_group is not None): the new _parent_groups
AbstractLeaf_add_parent_group(self, parent_group) ==
    [parent_groups EXCEPT ![self] = Append(@, parent_group)]

\* AbstractLeaf.remove_parent_group: the new _parent_groups (the ValueError of a
\* missing item is caught inside the method)
AbstractLeaf_remove_parent_group(self, parent_group) ==
    [parent_groups EXCEPT ![self] = ListRemove(@, parent_group).list]

\* Prompt.remove_parent_group, which overrides AbstractLeaf.remove_parent_group
\* and removes its argument from _prompt_arguments: the new _prompt_arguments
Prompt_remove_parent_group(self, prompt_argument) ==
    [prompt_arguments EXCEPT ![self] = ListRemove(@, prompt_argument).list]

\* Group.add_child_tool
add_child_tool(self, child_tool) ==
    /\ Entries < MaxEntries
    /\ child_tools' = [child_tools EXCEPT ![self] = Append(@, child_tool)]
    /\ IF child_tool = None
       THEN \* None.add_parent_group(self): AttributeError, after the append
            /\ UNCHANGED parent_groups
            /\ last' = Call("add_child_tool", self, None, None, "AttributeError")
       ELSE /\ ParentEntries < MaxParentGroups
            /\ parent_groups' = AbstractLeaf_add_parent_group(child_tool, self)
            /\ last' = Call("add_child_tool", self, child_tool, TRUE, "")
    /\ UNCHANGED <<name, name_separator, parent, child_groups, child_prompts,
                   child_resources, prompt_arguments, ext_parent, held>>

\* Group.remove_child_tool
remove_child_tool(self, child_tool) ==
    LET r == ListRemove(child_tools[self], child_tool) IN
    /\ IF r.raised
       THEN /\ UNCHANGED <<child_tools, parent_groups>>
            /\ last' = Call("remove_child_tool", self, child_tool, FALSE, "")
       ELSE /\ child_tools' = [child_tools EXCEPT ![self] = r.list]
            /\ parent_groups' = AbstractLeaf_remove_parent_group(child_tool, self)
            /\ last' = Call("remove_child_tool", self, child_tool, TRUE, "")
    /\ UNCHANGED <<name, name_separator, parent, child_groups, child_prompts,
                   child_resources, prompt_arguments, ext_parent, held>>

\* Group.add_child_prompt
add_child_prompt(self, child_prompt) ==
    /\ Entries < MaxEntries
    /\ child_prompts' = [child_prompts EXCEPT ![self] = Append(@, child_prompt)]
    /\ IF child_prompt = None
       THEN \* None.add_parent_group(self): AttributeError, after the append
            /\ UNCHANGED parent_groups
            /\ last' = Call("add_child_prompt", self, None, None, "AttributeError")
       ELSE /\ ParentEntries < MaxParentGroups
            /\ parent_groups' = AbstractLeaf_add_parent_group(child_prompt, self)
            /\ last' = Call("add_child_prompt", self, child_prompt, TRUE, "")
    /\ UNCHANGED <<name, name_separator, parent, child_groups, child_tools,
                   child_resources, prompt_arguments, ext_parent, held>>

\* Group.remove_child_prompt; child_prompt.remove_parent_group is Prompt's override
remove_child_prompt(self, child_prompt) ==
    LET r == ListRemove(child_prompts[self], child_prompt) IN
    /\ IF r.raised
       THEN /\ UNCHANGED <<child_prompts, prompt_arguments>>
            /\ last' = Call("remove_child_prompt", self, child_prompt, FALSE, "")
       ELSE /\ child_prompts' = [child_prompts EXCEPT ![self] = r.list]
            /\ prompt_arguments' = Prompt_remove_parent_group(child_prompt, self)
            /\ last' = Call("remove_child_prompt", self, child_prompt, TRUE, "")
    /\ UNCHANGED <<name, name_separator, parent, child_groups, child_tools,
                   child_resources, parent_groups, ext_parent, held>>

\* Group.add_child_resource
add_child_resource(self, child_resource) ==
    /\ Entries < MaxEntries
    /\ child_resources' = [child_resources EXCEPT ![self] = Append(@, child_resource)]
    /\ IF child_resource = None
       THEN \* None.add_parent_group(self): AttributeError, after the append
            /\ UNCHANGED parent_groups
            /\ last' = Call("add_child_resource", self, None, None, "AttributeError")
       ELSE /\ ParentEntries < MaxParentGroups
            /\ parent_groups' = AbstractLeaf_add_parent_group(child_resource, self)
            /\ last' = Call("add_child_resource", self, child_resource, TRUE, "")
    /\ UNCHANGED <<name, name_separator, parent, child_groups, child_tools,
                   child_prompts, prompt_arguments, ext_parent, held>>

\* Group.remove_child_resource
remove_child_resource(self, child_resource) ==
    LET r == ListRemove(child_resources[self], child_resource) IN
    /\ IF r.raised
       THEN /\ UNCHANGED <<child_resources, parent_groups>>
            /\ last' = Call("remove_child_resource", self, child_resource, FALSE, "")
       ELSE /\ child_resources' = [child_resources EXCEPT ![self] = r.list]
            /\ parent_groups' = AbstractLeaf_remove_parent_group(child_resource, self)
            /\ last' = Call("remove_child_resource", self, child_resource, TRUE, "")
    /\ UNCHANGED <<name, name_separator, parent, child_groups, child_tools,
                   child_prompts, prompt_arguments, ext_parent, held>>

\* Prompt.add_prompt_argument (prompt_argument is not None)
add_prompt_argument(self, prompt_argument) ==
    /\ IF prompt_argument = None
       THEN /\ UNCHANGED prompt_arguments
            /\ last' = Call("add_prompt_argument", self, None, None, "ValueError")
       ELSE /\ Entries < MaxEntries
            /\ prompt_arguments' = [prompt_arguments EXCEPT ![self] = Append(@, prompt_argument)]
            /\ last' = Call("add_prompt_argument", self, prompt_argument, TRUE, "")
    /\ UNCHANGED <<name, name_separator, parent, child_groups, child_tools, child_prompts,
                   child_resources, parent_groups, ext_parent, held>>

\* the operations by which a group gains and loses leaves
NextLeaf ==
    \/ \E g \in Groups, t \in Tools : add_child_tool(g, t)
    \/ \E g \in Groups, t \in Tools : remove_child_tool(g, t)
    \/ \E g \in Groups, p \in Prompts : add_child_prompt(g, p)
    \/ \E g \in Groups, p \in Prompts : remove_child_prompt(g, p)
    \/ \E g \in Groups, r \in Resources : add_child_resource(g, r)
    \/ \E g \in Groups, r \in Resources : remove_child_resource(g, r)
    \/ \E p \in Prompts, a \in PromptArguments : add_prompt_argument(p, a)

SpecLeaf == Init /\ [][NextLeaf]_vars

\* ------------------------------------------- leaf methods called directly

\* As call_add_parent_group, but the leaf is also entered in the group's child
\* collection of its kind.
call_add_parent_group_registers_child(self, parent_group) ==
    /\ parent_group # None
    /\ ParentEntries < MaxParentGroups
    /\ parent_groups' = AbstractLeaf_add_parent_group(self, parent_group)
    /\ child_tools' = IF self \in Tools
                      THEN [child_tools EXCEPT ![parent_group] = Append(@, self)]
                      ELSE child_tools
    /\ child_prompts' = IF self \in Prompts
                        THEN [child_prompts EXCEPT ![parent_group] = Append(@, self)]
                        ELSE child_prompts
    /\ child_resources' = IF self \in Resources
                          THEN [child_resources EXCEPT ![parent_group] = Append(@, self)]
                          ELSE child_resources
    /\ last' = Call("add_parent_group", self, parent_group, TRUE, "")
    /\ UNCHANGED <<name, name_separator, parent, child_groups,
                   prompt_arguments, ext_parent, held>>

\* leaf.add_parent_group(parent_group), called by a client; Tool, Prompt and
\* Resource all inherit AbstractLeaf.add_parent_group.
call_add_parent_group(self, parent_group) ==
    /\ IF parent_group = None
       THEN /\ UNCHANGED parent_groups
            /\ last' = Call("add_parent_group", self, None, None, "ValueError")
       ELSE /\ ParentEntries < MaxParentGroups
            /\ parent_groups' = AbstractLeaf_add_parent_group(self, parent_group)
            /\ last' = Call("add_parent_group", self, parent_group, TRUE, "")
    /\ UNCHANGED <<name, name_separator, parent, child_groups, child_tools, child_prompts,
                   child_resources, prompt_arguments, ext_parent, held>>

\* leaf.remove_parent_group(arg), called by a client: a Prompt runs its
\* override (on _prompt_arguments), a Tool or Resource the inherited method.
call_remove_parent_group(self, arg) ==
    /\ IF self \in Prompts
       THEN /\ prompt_arguments' = Prompt_remove_parent_group(self, arg)
            /\ last' = Call("remove_parent_group", self, arg,
                            ~ListRemove(prompt_arguments[self], arg).raised, "")
            /\ UNCHANGED parent_groups
       ELSE /\ parent_groups' = AbstractLeaf_remove_parent_group(self, arg)
            /\ last' = Call("remove_parent_group", self, arg,
                            ~ListRemove(parent_groups[self], arg).raised, "")
            /\ UNCHANGED prompt_arguments
    /\ UNCHANGED <<name, name_separator, parent, child_groups, child_tools, child_prompts,
                   child_resources, ext_parent, held>>

\* the groups the clients of this scenario work with: G2 and G3, which share a
\* name under SharedNames and have different names under DistinctNames
MembershipGroups == {"G2", "G3"}

\* groups, leaves and prompt arguments wired by the group operations and by
\* clients that call the leaf methods themselves
NextMembership ==
    \/ \E p \in MembershipGroups, c \in MembershipGroups : add_child_group(p, c)
    \/ \E p \in MembershipGroups, c \in MembershipGroups : remove_child_group(p, c)
    \/ \E g \in MembershipGroups, t \in Tools : add_child_tool(g, t)
    \/ \E g \in MembershipGroups, t \in Tools : remove_child_tool(g, t)
    \/ \E g \in MembershipGroups, p \in Prompts : add_child_prompt(g, p)
    \/ \E g \in MembershipGroups, p \in Prompts : remove_child_prompt(g, p)
    \/ \E g \in MembershipGroups, r \in Resources : add_child_resource(g, r)
    \/ \E g \in MembershipGroups, r \in Resources : remove_child_resource(g, r)
    \/ \E p \in Prompts, a \in PromptArguments : add_prompt_argument(p, a)
    \/ \E l \in Leaves, g \in MembershipGroups : call_add_parent_group(l, g)
    \/ \E l \in Leaves, a \in MembershipGroups \cup PromptArguments :
          call_remove_parent_group(l, a)

\* every entity built with the default name separator
InitMembership == Init /\ name_separator = DefaultSeparators

SpecMembership == InitMembership /\ [][NextMembership]_vars

\* ------------------------------------------------------------- readers

\* The getters return the list object itself (return self._child_groups): the
\* reader holds that object, named here by its owner and field.  No operation
\* rebinds a list field after __init__ (append and remove act on the object in
\* place), so the object a reader holds stays the owner's field.
Obtain(owner, field) == [owner |-> owner, field |-> field]

\* what the list object a reader holds contains now
HeldContents ==
    CASE held.field = "child_groups" -> child_groups[held.owner]
      [] held.field = "child_tools" -> child_tools[held.owner]
      [] held.field = "child_prompts" -> child_prompts[held.owner]
      [] held.field = "child_resources" -> child_resources[held.owner]
      [] held.field = "parent_groups" -> parent_groups[held.owner]
      [] OTHER -> <<>>

\* Group.get_children_groups
get_children_groups(self) ==
    /\ held' = Obtain(self, "child_groups")
    /\ last' = Call("get_children_groups", self, None, None, "")
    /\ UNCHANGED <<name, name_separator, parent, child_groups, child_tools, child_prompts,
                   child_resources, parent_groups, prompt_arguments, ext_parent>>

\* Group.get_children_tools
get_children_tools(self) ==
    /\ held' = Obtain(self, "child_tools")
    /\ last' = Call("get_children_tools", self, None, None, "")
    /\ UNCHANGED <<name, name_separator, parent, child_groups, child_tools, child_prompts,
                   child_resources, parent_groups, prompt_arguments, ext_parent>>

\* Group.get_children_prompts
get_children_prompts(self) ==
    /\ held' = Obtain(self, "child_prompts")
    /\ last' = Call("get_children_prompts", self, None, None, "")
    /\ UNCHANGED <<name, name_separator, parent, child_groups, child_tools, child_prompts,
                   child_resources, parent_groups, prompt_arguments, ext_parent>>

\* Group.get_children_resources
get_children_resources(self) ==
    /\ held' = Obtain(self, "child_resources")
    /\ last' = Call("get_children_resources", self, None, None, "")
    /\ UNCHANGED <<name, name_separator, parent, child_groups, child_tools, child_prompts,
                   child_resources, parent_groups, prompt_arguments, ext_parent>>

\* AbstractLeaf.get_parent_groups (and the parent_groups property)
get_parent_groups(self) ==
    /\ held' = Obtain(self, "parent_groups")
    /\ last' = Call("get_parent_groups", self, None, None, "")
    /\ UNCHANGED <<name, name_separator, parent, child_groups, child_tools, child_prompts,
                   child_resources, parent_groups, prompt_arguments, ext_parent>>

\* the groups the reader and the writer of SpecSnapshots work on
SnapshotGroups == {"G1", "G2"}

\* a reader obtaining a list, interleaved with the operations that add and remove
NextSnapshots ==
    \/ \E g \in SnapshotGroups : get_children_groups(g)
    \/ \E g \in SnapshotGroups : get_children_tools(g)
    \/ \E g \in SnapshotGroups : get_children_prompts(g)
    \/ \E g \in SnapshotGroups : get_children_resources(g)
    \/ \E l \in Leaves : get_parent_groups(l)
    \/ \E p \in SnapshotGroups, c \in SnapshotGroups : add_child_group(p, c)
    \/ \E p \in SnapshotGroups, c \in SnapshotGroups : remove_child_group(p, c)
    \/ \E g \in SnapshotGroups, t \in Tools : add_child_tool(g, t)
    \/ \E g \in SnapshotGroups, t \in Tools : remove_child_tool(g, t)
    \/ \E g \in SnapshotGroups, p \in Prompts : add_child_prompt(g, p)
    \/ \E g \in SnapshotGroups, p \in Prompts : remove_child_prompt(g, p)
    \/ \E g \in SnapshotGroups, r \in Resources : add_child_resource(g, r)
    \/ \E g \in SnapshotGroups, r \in Resources : remove_child_resource(g, r)

\* the objects built with names of their own and default separators
InitSnapshots ==
    /\ Init
    /\ name = DistinctNames
    /\ name_separator = DefaultSeparators

SpecSnapshots == InitSnapshots /\ [][NextSnapshots]_vars

\* ------------------------------------------------------- groupext.Group

\* assignment of the pydantic field groupext.Group.parent
ext_set_parent(self, p) ==
    /\ ext_parent' = [ext_parent EXCEPT ![self] = p]
    /\ last' = Call("ext_set_parent", self, p, None, "")
    /\ UNCHANGED <<name, name_separator, parent, child_groups, child_tools, child_prompts,
                   child_resources, parent_groups, prompt_arguments, held>>

\* groupext.Group._get_parent_name(self, sb, tg, separator).  The recursive call
\* passes self.parent, not tg.parent.  `active` holds the tg arguments that have
\* a frame on the call stack (self and separator are the same in every frame):
\* a call with a tg that is already active never returns and ends in
\* RecursionError.
RECURSIVE _get_parent_name(_, _, _, _)
_get_parent_name(self, tg, separator, active) ==
    IF ext_parent[tg] # None
    THEN LET next_tg == ext_parent[self] IN
         IF next_tg \in active THEN Raised("RecursionError")
         ELSE LET r == _get_parent_name(self, next_tg, separator, active \cup {next_tg}) IN
              IF r.exc # "" THEN r
              ELSE Returned(r.val \o separator \o ExtName[tg])
    ELSE Returned(ExtName[tg])

\* groupext.Group.get_fully_qualified_name(self, name_separator)
ext_get_fully_qualified_name(self, separator) ==
    _get_parent_name(self, self, separator, {self})

\* a call of groupext.Group.get_fully_qualified_name
ext_call_get_fully_qualified_name(self, separator) ==
    LET r == ext_get_fully_qualified_name(self, separator) IN
    /\ last' = Call("ext_get_fully_qualified_name", self, separator, r.val, r.exc)
    /\ UNCHANGED <<name, name_separator, parent, child_groups, child_tools, child_prompts,
                   child_resources, parent_groups, prompt_arguments, ext_parent, held>>

NextExt ==
    \/ \E x \in ExtGroups, p \in ExtGroups \cup {None} : ext_set_parent(x, p)
    \/ \E x \in ExtGroups, sep \in ExtSeparators : ext_call_get_fully_qualified_name(x, sep)

SpecExt == Init /\ [][NextExt]_vars

\* ----------------------------------------------------------- converters

\* longest list handed to a batch conversion
MaxBatch == 3

\* ToolAnnotations instances
ToolAnnotationsSet == {"N1", "N2"}

\* values of the external type a converter maps to and from (GroupType,
\* PromptType, ResourceType, ToolAnnotationsType, ToolType)
Wire == {"w1", "w2"}

\* lists of at most MaxBatch elements of S
Lists(S) == UNION {[1..n -> S] : n \in 0..MaxBatch}

\* A converter is given by its implementation of the abstract single-element
\* method: a value of the target type or None for each value of the source type.
Converters(From, To) == [From -> To \cup {None}]

\* As ConvertLoop, but a None result is appended like any other.
RECURSIVE ConvertLoop_keeps_none(_, _, _, _)
ConvertLoop_keeps_none(convert_one, xs, i, result) ==
    IF i > Len(xs) THEN [input |-> xs, result |-> result]
    ELSE ConvertLoop_keeps_none(convert_one, xs, i + 1, Append(result, convert_one[xs[i]]))

\* The loop every batch method runs, from element i on with result so far:
\*   for x in xs: converted = convert_one(x)
\*                if converted is not None: result.append(converted)
\* It yields the result list and the input list as the loop leaves it.
RECURSIVE ConvertLoop(_, _, _, _)
ConvertLoop(convert_one, xs, i, result) ==
    IF i > Len(xs) THEN [input |-> xs, result |-> result]
    ELSE LET converted == convert_one[xs[i]] IN
         ConvertLoop(convert_one, xs, i + 1,
                     IF converted # None THEN Append(result, converted) ELSE result)

\* a call of batch method op on converter self with list xs
BatchCall(op, self, xs) ==
    /\ last' = Call(op, self, xs, ConvertLoop(self, xs, 1, <<>>), "")
    /\ UNCHANGED <<name, name_separator, parent, child_groups, child_tools, child_prompts,
                   child_resources, parent_groups, prompt_arguments, ext_parent, held>>

convert_from_groups(self, groups) == BatchCall("convert_from_groups", self, groups)
convert_to_groups(self, groups) == BatchCall("convert_to_groups", self, groups)
convert_from_prompts(self, prompts) == BatchCall("convert_from_prompts", self, prompts)
convert_to_prompts(self, prompts) == BatchCall("convert_to_prompts", self, prompts)
convert_from_resources(self, resources) == BatchCall("convert_from_resources", self, resources)
convert_to_resources(self, resources) == BatchCall("convert_to_resources", self, resources)
convert_from_tool_annotations_list(self, tool_annotations) ==
    BatchCall("convert_from_tool_annotations_list", self, tool_annotations)
convert_to_tool_annotations_list(self, tool_annotations) ==
    BatchCall("convert_to_tool_annotations_list", self, tool_annotations)
convert_from_tools(self, tools) == BatchCall("convert_from_tools", self, tools)
convert_to_tools(self, tools) == BatchCall("convert_to_tools", self, tools)

NextConvert ==
    \/ \E c \in Converters(Groups, Wire), xs \in Lists(Groups) : convert_from_groups(c, xs)
    \/ \E c \in Converters(Wire, Groups), xs \in Lists(Wire) : convert_to_groups(c, xs)
    \/ \E c \in Converters(Prompts, Wire), xs \in Lists(Prompts) : convert_from_prompts(c, xs)
    \/ \E c \in Converters(Wire, Prompts), xs \in Lists(Wire) : convert_to_prompts(c, xs)
    \/ \E c \in Converters(Resources, Wire), xs \in Lists(Resources) :
          convert_from_resources(c, xs)
    \/ \E c \in Converters(Wire, Resources), xs \in Lists(Wire) : convert_to_resources(c, xs)
    \/ \E c \in Converters(ToolAnnotationsSet, Wire), xs \in Lists(ToolAnnotationsSet) :
          convert_from_tool_annotations_list(c, xs)
    \/ \E c \in Converters(Wire, ToolAnnotationsSet), xs \in Lists(Wire) :
          convert_to_tool_annotations_list(c, xs)
    \/ \E c \in Converters(Tools, Wire), xs \in Lists(Tools) : convert_from_tools(c, xs)
    \/ \E c \in Converters(Wire, Tools), xs \in Lists(Wire) : convert_to_tools(c, xs)

SpecConvert == InitMembership /\ [][NextConvert]_vars

\* ------------------------------------------------------ equality and hash

\* names that entities of any class may be given
EqualityNames == {"x", "y"}

\* the values hash() of a string may take
HashValues == {0, 1}

\* hash() of a string: some function of the string, the same one throughout a
\* process
StringHashes == [EqualityNames -> HashValues]

\* AbstractBase.__hash__(self), with hash_str the built-in hash on strings
Hash(self, hash_str) == hash_str[name[self]]

\* a client evaluates self == other, hash(self) and hash(other)
compare(self, other, hash_str) ==
    /\ last' = Call("compare", self, other,
                    [eq |-> Eq(self, other),
                     hash_self |-> Hash(self, hash_str),
                     hash_other |-> Hash(other, hash_str)], "")
    /\ UNCHANGED <<name, name_separator, parent, child_groups, child_tools, child_prompts,
                   child_resources, parent_groups, prompt_arguments, ext_parent, held>>

\* Group("x"), Group("x"), Group("y"), PromptArgument("x") and every choice of
\* names for the leaves: equal names occur within a class and across classes
EqualityNameChoices ==
    {n \in [Entities -> EqualityNames] :
        n["G1"] = "x" /\ n["G2"] = "x" /\ n["G3"] = "y" /\ n["A1"] = "x"}

InitEquality ==
    /\ name \in EqualityNameChoices
    /\ name_separator = DefaultSeparators
    /\ parent = [g \in Groups |-> None]
    /\ child_groups = [g \in Groups |-> <<>>]
    /\ child_tools = [g \in Groups |-> <<>>]
    /\ child_prompts = [g \in Groups |-> <<>>]
    /\ child_resources = [g \in Groups |-> <<>>]
    /\ parent_groups = [l \in Leaves |-> <<>>]
    /\ prompt_arguments = [p \in Prompts |-> <<>>]
    /\ ext_parent = [x \in ExtGroups |-> None]
    /\ held = NoList
    /\ last = Call("init", None, None, None, "")

\* comparisons between entities, some of which belong to group G1
NextEquality ==
    \/ \E t \in Tools : add_child_tool("G1", t)
    \/ \E t \in Tools : remove_child_tool("G1", t)
    \/ \E x \in Entities, y \in Entities, h \in StringHashes : compare(x, y, h)

SpecEquality == InitEquality /\ [][NextEquality]_vars

\* --------------------------------------------------------- construction

\* name of an identity for which no object has been constructed
Unbuilt == "Unbuilt"

Built(x) == name[x] # Unbuilt

\* the objects a client of this scenario constructs, one of each class
ConstructEntities == {"G1", "T1", "P1", "R1", "A1"}

\* name and name_separator arguments of the constructor calls
ConstructNames == {"a", None}
ConstructSeparators == {"/", None}

\* As construct, but without the check of name.
construct_without_check(self, n, separator) ==
    /\ ~Built(self)
    /\ name' = [name EXCEPT ![self] = n]
    /\ name_separator' =
         IF self \in Groups
         THEN [name_separator EXCEPT
                 ![self] = IF separator # None THEN separator ELSE DEFAULT_SEPARATOR]
         ELSE name_separator
    /\ last' = Call("__init__", self, n, None, "")
    /\ UNCHANGED <<parent, child_groups, child_tools, child_prompts, child_resources,
                   parent_groups, prompt_arguments, ext_parent, held>>

\* Group(n, separator), Tool(n), Prompt(n), Resource(n), PromptArgument(n) for
\* the object of identity self: AbstractBase.__init__ raises ValueError when n
\* is None, and then there is no object; otherwise it stores the name and the
\* separator, and the subclass constructors create the empty lists.
construct(self, n, separator) ==
    /\ ~Built(self)
    /\ IF n = None
       THEN /\ UNCHANGED <<name, name_separator>>
            /\ last' = Call("__init__", self, None, None, "ValueError")
       ELSE /\ name' = [name EXCEPT ![self] = n]
            /\ name_separator' =
                 IF self \in Groups
                 THEN [name_separator EXCEPT
                         ![self] = IF separator # None THEN separator ELSE DEFAULT_SEPARATOR]
                 ELSE name_separator
            /\ last' = Call("__init__", self, n, None, "")
    /\ UNCHANGED <<parent, child_groups, child_tools, child_prompts, child_resources,
                   parent_groups, prompt_arguments, ext_parent, held>>

\* before any constructor has run
InitConstruct ==
    /\ name = [x \in Entities |-> Unbuilt]
    /\ name_separator = [g \in Groups |-> Unbuilt]
    /\ parent = [g \in Groups |-> None]
    /\ child_groups = [g \in Groups |-> <<>>]
    /\ child_tools = [g \in Groups |-> <<>>]
    /\ child_prompts = [g \in Groups |-> <<>>]
    /\ child_resources = [g \in Groups |-> <<>>]
    /\ parent_groups = [l \in Leaves |-> <<>>]
    /\ prompt_arguments = [p \in Prompts |-> <<>>]
    /\ ext_parent = [x \in ExtGroups |-> None]
    /\ held = NoList
    /\ last = Call("init", None, None, None, "")

\* a client constructs objects and passes them, or None, to the leaf methods
NextConstruct ==
    \/ \E x \in ConstructEntities, n \in ConstructNames, sep \in ConstructSeparators :
          construct(x, n, sep)
    \/ \E l \in Leaves \cap ConstructEntities, g \in (Groups \cap ConstructEntities) \cup {None} :
          /\ Built(l)
          /\ g # None => Built(g)
          /\ call_add_parent_group(l, g)
    \/ \E p \in Prompts \cap ConstructEntities,
          a \in (PromptArguments \cap ConstructEntities) \cup {None} :
          /\ Built(p)
          /\ a # None => Built(a)
          /\ add_prompt_argument(p, a)

SpecConstruct == InitConstruct /\ [][NextConstruct]_vars

\* -------------------------------------------------- roots of a leaf's groups

\* The list comprehension [pg.get_root() for pg in parent_groups], from element
\* i on with the roots found so far; an exception raised by get_root ends it.
RECURSIVE RootsLoop(_, _, _)
RootsLoop(pgs, i, roots) ==
    IF i > Len(pgs) THEN Returned(roots)
    ELSE LET r == get_root(pgs[i], {pgs[i]}) IN
         IF r.exc # "" THEN Raised(r.exc)
         ELSE RootsLoop(pgs, i + 1, Append(roots, r.val))

\* AbstractLeaf.get_parent_group_roots
get_parent_group_roots(self) == RootsLoop(parent_groups[self], 1, <<>>)

\* a call of AbstractLeaf.get_parent_group_roots
call_get_parent_group_roots(self) ==
    LET r == get_parent_group_roots(self) IN
    /\ last' = Call("get_parent_group_roots", self, None, r.val, r.exc)
    /\ UNCHANGED <<name, name_separator, parent, child_groups, child_tools, child_prompts,
                   child_resources, parent_groups, prompt_arguments, ext_parent, held>>

\* groups are arranged, tools join and leave them, and leaves are asked for the
\* roots of their groups
NextRoots ==
    \/ \E p \in Groups, c \in Groups : add_child_group(p, c)
    \/ \E p \in Groups, c \in Groups : remove_child_group(p, c)
    \/ \E g \in Groups, t \in Tools : add_child_tool(g, t)
    \/ \E g \in Groups, t \in Tools : remove_child_tool(g, t)
    \/ \E l \in Leaves : call_get_parent_group_roots(l)

SpecRoots == InitSnapshots /\ [][NextRoots]_vars

\* ------------------------------------------------- adds given no object

\* a client passes objects, or None, to the add operations of a group and
\* removes objects again
NextAddNone ==
    \/ \E p \in Groups, c \in Groups \cup {None} : add_child_group(p, c)
    \/ \E p \in Groups, c \in Groups : remove_child_group(p, c)
    \/ \E g \in Groups, t \in Tools \cup {None} : add_child_tool(g, t)
    \/ \E g \in Groups, t \in Tools : remove_child_tool(g, t)
    \/ \E g \in Groups, p \in Prompts \cup {None} : add_child_prompt(g, p)
    \/ \E g \in Groups, p \in Prompts : remove_child_prompt(g, p)
    \/ \E g \in Groups, r \in Resources \cup {None} : add_child_resource(g, r)
    \/ \E g \in Groups, r \in Resources : remove_child_resource(g, r)

SpecAddNone == InitSnapshots /\ [][NextAddNone]_vars

\* ================================================================ claims

\* the group reached from g by following n parent links (None once past a root)
RECURSIVE Ancestor(_, _)
Ancestor(g, n) ==
    IF n = 0 \/ g = None THEN g ELSE Ancestor(parent[g], n - 1)

\* following parent links from g ends at a root
Acyclic(g) == Ancestor(g, Cardinality(Groups)) = None

\* the groups from the root down to g, for an acyclic g
RECURSIVE PathFromRoot(_)
PathFromRoot(g) ==
    IF parent[g] = None THEN <<g>> ELSE Append(PathFromRoot(parent[g]), g)

\* the names of a non-empty path, first to last, joined by sep
RECURSIVE JoinNames(_, _)
JoinNames(path, sep) ==
    IF Len(path) = 1 THEN name[path[1]]
    ELSE name[path[1]] \o sep \o JoinNames(Tail(path), sep)

\* C1: in every reachable state, for all groups p and c, c.parent is p if and
\* only if c is a member of p.child_groups.
C1_ParentAgreesWithMembership ==
    \A p \in Groups, c \in Groups :
        (parent[c] = p) <=> Member(child_groups[p], c)

\* C2: in every state reached by add_child_group / remove_child_group the group
\* graph is a forest: parent links never cycle and every group is a member of
\* the child_groups of at most one group.
C2_Forest ==
    /\ \A g \in Groups : Acyclic(g)
    /\ \A c \in Groups :
        Cardinality({p \in Groups : Member(child_groups[p], c)}) <= 1

\* C3: g.get_root() terminates and returns the ancestor of g (or g itself)
\* whose parent is None.
C3_GetRootReturnsRoot ==
    last.op = "get_root" =>
        /\ last.exc = ""
        /\ parent[last.ret] = None
        /\ \E n \in 0..Cardinality(Groups) : Ancestor(last.self, n) = last.ret

\* C7: on a group in an acyclic parent chain, get_fully_qualified_name() returns
\* the names from the root down to the group itself, joined by the name
\* separator of the group it was called on.
C7_FullyQualifiedName ==
    (last.op = "get_fully_qualified_name" /\ Acyclic(last.self)) =>
        /\ last.exc = ""
        /\ last.ret = JoinNames(PathFromRoot(last.self), name_separator[last.self])

\* C7 witness: the chain a -> b -> c with separator "." gave "a.b.c".
C7_Witness ==
    /\ last.op = "get_fully_qualified_name"
    /\ last.self = "G3"
    /\ parent["G3"] = "G2" /\ parent["G2"] = "G1" /\ parent["G1"] = None
    /\ name = DistinctNames
    /\ name_separator = DefaultSeparators
    /\ last.ret = "a.b.c"

\* C9: remove_child_group removes by identity: when p.child_groups contains c1
\* and c2 is another instance with c1's name that is not itself a member,
\* p.remove_child_group(c2) returns False, leaves c1 in p.child_groups and
\* changes neither c1.parent nor c2.parent.
C9_RemoveByIdentity ==
    [][\A p \in Groups, c1 \in Groups, c2 \in Groups :
        ( /\ c1 # c2
          /\ name[c1] = name[c2]
          /\ Member(child_groups[p], c1)
          /\ ~Member(child_groups[p], c2)
          /\ last'.op = "remove_child_group"
          /\ last'.self = p
          /\ last'.arg = c2 )
        => ( /\ last'.ret = FALSE
             /\ Member(child_groups'[p], c1)
             /\ parent'[c1] = parent[c1]
             /\ parent'[c2] = parent[c2] )]_vars

\* C10: from any reachable state, after p.add_child_group(c) followed by
\* p.remove_child_group(c), c.parent is None and c is not a member of
\* p.child_groups.
C10_AddThenRemove ==
    [][( /\ last.op = "add_child_group"
         /\ last'.op = "remove_child_group"
         /\ last'.self = last.self
         /\ last'.arg = last.arg )
       => ( /\ parent'[last.arg] = None
            /\ ~Member(child_groups'[last.self], last.arg) )]_vars

\* C4: after g.add_child_prompt(p) followed by g.remove_child_prompt(p), p is not
\* in g.child_prompts and g is no longer in p.parent_groups.
C4_PromptAddThenRemove ==
    [][( /\ last.op = "add_child_prompt"
         /\ last'.op = "remove_child_prompt"
         /\ last'.self = last.self
         /\ last'.arg = last.arg )
       => ( /\ ~Member(child_prompts'[last.self], last.arg)
            /\ ~Member(parent_groups'[last.arg], last.self) )]_vars

\* C5: in every state reached by add/remove_child_tool and add/remove_child_resource
\* calls, a tool or resource is a member of g's matching child collection if
\* and only if g is a member of its parent_groups.
C5_LeafMembershipBidirectional ==
    /\ \A g \in Groups, t \in Tools :
        Member(child_tools[g], t) <=> Member(parent_groups[t], g)
    /\ \A g \in Groups, r \in Resources :
        Member(child_resources[g], r) <=> Member(parent_groups[r], g)

\* the groupext group reached from x by following n parent links
RECURSIVE ExtAncestor(_, _)
ExtAncestor(x, n) ==
    IF n = 0 \/ x = None THEN x ELSE ExtAncestor(ext_parent[x], n - 1)

\* following parent links from x ends at a root
ExtAcyclic(x) == ExtAncestor(x, Cardinality(ExtGroups)) = None

\* the groupext groups from the root down to x, for an acyclic x
RECURSIVE ExtPathFromRoot(_)
ExtPathFromRoot(x) ==
    IF ext_parent[x] = None THEN <<x>> ELSE Append(ExtPathFromRoot(ext_parent[x]), x)

\* the names of a non-empty path of groupext groups, first to last, joined by sep
RECURSIVE ExtJoinNames(_, _)
ExtJoinNames(path, sep) ==
    IF Len(path) = 1 THEN ExtName[path[1]]
    ELSE ExtName[path[1]] \o sep \o ExtJoinNames(Tail(path), sep)

\* C6: groupext.Group.get_fully_qualified_name(sep) terminates for a parent
\* chain of any finite depth and returns the names from the root to the group
\* itself joined by sep.
C6_ExtFullyQualifiedName ==
    (last.op = "ext_get_fully_qualified_name" /\ ExtAcyclic(last.self)) =>
        /\ last.exc = ""
        /\ last.ret = ExtJoinNames(ExtPathFromRoot(last.self), last.arg)

\* C8: a reader that obtained a child sequence or a leaf's parent_groups keeps
\* observing exactly the elements present when it obtained it; a later add or
\* remove never changes the sequence the reader holds.
C8_ReaderSnapshotStable ==
    [][(held.owner # None /\ held' = held) => HeldContents' = HeldContents]_vars

\* C11: immediately after p.add_child_group(c), c.parent is p, c is the last
\* element of p.child_groups, and the call returned True.
C11_AddChildGroupLinks ==
    last.op = "add_child_group" =>
        /\ last.exc = ""
        /\ last.ret = TRUE
        /\ parent[last.arg] = last.self
        /\ Len(child_groups[last.self]) > 0
        /\ child_groups[last.self][Len(child_groups[last.self])] = last.arg

\* C11 witness: a child was added behind an earlier entry of the same list.
C11_Witness ==
    /\ last.op = "add_child_group"
    /\ last.self # last.arg
    /\ Len(child_groups[last.self]) = 2
    /\ child_groups[last.self][1] # last.arg
    /\ child_groups[last.self][2] = last.arg
    /\ parent[last.arg] = last.self

\* the number of positions of list that hold x
Occurrences(list, x) == Cardinality({i \in 1..Len(list) : list[i] = x})

\* C13: no child collection of any group contains the same entity more than
\* once.
C13_UniqueMembership ==
    \A g \in Groups :
        /\ \A c \in Groups : Occurrences(child_groups[g], c) <= 1
        /\ \A t \in Tools : Occurrences(child_tools[g], t) <= 1
        /\ \A p \in Prompts : Occurrences(child_prompts[g], p) <= 1
        /\ \A r \in Resources : Occurrences(child_resources[g], r) <= 1

\* C14: for distinct groups p1, p2 and a group c, after p1.add_child_group(c)
\* followed by p2.add_child_group(c), c.parent is p2, c is a member of
\* p2.child_groups and c is still a member of p1.child_groups.
C14_ReparentKeepsOldEntry ==
    [][( /\ last.op = "add_child_group"
         /\ last'.op = "add_child_group"
         /\ last'.arg = last.arg
         /\ last'.self # last.self )
       => ( /\ parent'[last.arg] = last'.self
            /\ Member(child_groups'[last'.self], last.arg)
            /\ Member(child_groups'[last.self], last.arg) )]_vars

\* C14 witness: c was added to a second group while registered with a first.
C14_Witness ==
    /\ last.op = "add_child_group"
    /\ parent[last.arg] = last.self
    /\ Member(child_groups[last.self], last.arg)
    /\ \E p1 \in Groups \ {last.self, last.arg} : Member(child_groups[p1], last.arg)

\* the child collection of group g that holds leaves of leaf's kind
LeafCollection(g, leaf) ==
    CASE leaf \in Tools -> child_tools[g]
      [] leaf \in Prompts -> child_prompts[g]
      [] leaf \in Resources -> child_resources[g]

AddChildLeafOps == {"add_child_tool", "add_child_prompt", "add_child_resource"}

\* C12: a leaf with no prior memberships that is added to group g1 and then to
\* a distinct group g2 through the add_child_* operation of its kind has
\* parent_groups exactly <<g1, g2>>, in that order, and is a member of the
\* matching child collection of both groups.
C12_LeafInTwoGroups ==
    [][\A g1 \in Groups, g2 \in Groups, leaf \in Leaves :
         ( /\ last.op \in AddChildLeafOps
           /\ last.self = g1
           /\ last.arg = leaf
           /\ parent_groups[leaf] = <<g1>>
           /\ \A g \in Groups \ {g1} : ~Member(LeafCollection(g, leaf), leaf)
           /\ last'.op = last.op
           /\ last'.arg = leaf
           /\ last'.self = g2
           /\ g2 # g1 )
         => ( /\ parent_groups'[leaf] = <<g1, g2>>
              /\ Member(LeafCollection(g1, leaf)', leaf)
              /\ Member(LeafCollection(g2, leaf)', leaf) )]_vars

\* C12 witness: a leaf was added to a second, distinct group right after its
\* first and belongs to both.
C12_Witness ==
    /\ last.op \in AddChildLeafOps
    /\ Len(parent_groups[last.arg]) = 2
    /\ parent_groups[last.arg][1] # last.self
    /\ parent_groups[last.arg][2] = last.self
    /\ Member(LeafCollection(parent_groups[last.arg][1], last.arg), last.arg)
    /\ Member(LeafCollection(last.self, last.arg), last.arg)

RemoveOps == {"remove_child_group", "remove_child_tool", "remove_child_prompt",
              "remove_child_resource", "remove_parent_group"}

\* the collection a removal call looks its argument up in
TargetCollection(op, self) ==
    CASE op = "remove_child_group" -> child_groups[self]
      [] op = "remove_child_tool" -> child_tools[self]
      [] op = "remove_child_prompt" -> child_prompts[self]
      [] op = "remove_child_resource" -> child_resources[self]
      [] op = "remove_parent_group" -> parent_groups[self]

\* C15: for remove_child_group, remove_child_tool, remove_child_prompt,
\* remove_child_resource and AbstractLeaf.remove_parent_group (the method of
\* Tool and Resource): when the argument is not in the target collection the
\* call returns False without raising and every child collection, every parent
\* pointer and every parent_groups list is unchanged; when the argument is a
\* member the call returns True.
C15_RemoveNonMember ==
    [][\A op \in RemoveOps, self \in Groups \cup Tools \cup Resources,
          arg \in Groups \cup Leaves :
         ( /\ last'.op = op
           /\ last'.self = self
           /\ last'.arg = arg )
         => IF Member(TargetCollection(op, self), arg)
            THEN last'.exc = "" /\ last'.ret = TRUE
            ELSE /\ last'.exc = ""
                 /\ last'.ret = FALSE
                 /\ UNCHANGED <<child_groups, child_tools, child_prompts,
                                child_resources, parent, parent_groups>>]_vars

\* C19: for a leaf of any kind and a group g, leaf.add_parent_group(g) and
\* leaf.remove_parent_group(g) change nothing but that leaf's parent_groups:
\* the child collections and parent of g and the state of every other entity
\* are as before the call.
C19_ParentGroupFrame ==
    [][\A leaf \in Leaves :
         ( /\ last'.op \in {"add_parent_group", "remove_parent_group"}
           /\ last'.self = leaf
           /\ last'.arg \in Groups )
         => ( /\ UNCHANGED <<name, name_separator, parent, child_groups, child_tools,
                             child_prompts, child_resources, prompt_arguments>>
              /\ \A other \in Leaves \ {leaf} :
                    parent_groups'[other] = parent_groups[other] )]_vars

\* C19 witness: a leaf called directly has a parent group that does not list
\* it as a child.
C19_Witness ==
    /\ last.op = "add_parent_group"
    /\ last.arg \in Groups
    /\ Member(parent_groups[last.self], last.arg)
    /\ ~Member(LeafCollection(last.arg, last.self), last.self)

BatchOps == {"convert_from_groups", "convert_to_groups", "convert_from_prompts",
             "convert_to_prompts", "convert_from_resources", "convert_to_resources",
             "convert_from_tool_annotations_list", "convert_to_tool_annotations_list",
             "convert_from_tools", "convert_to_tools"}

\* the single-element conversions of xs, in input order
SingleConversions(convert_one, xs) == [i \in 1..Len(xs) |-> convert_one[xs[i]]]

\* C16: for every converter kind and direction and every input list xs, the
\* batch result is the sequence of single-element conversions of xs in input
\* order with exactly the None results dropped; the input list is as it was
\* and no error is raised.
C16_BatchIsOrderPreservingFilter ==
    last.op \in BatchOps =>
        /\ last.exc = ""
        /\ last.ret.input = last.arg
        /\ last.ret.result =
             SelectSeq(SingleConversions(last.self, last.arg), LAMBDA v : v # None)

\* C16 witness: a batch call on three elements dropped the middle one and kept
\* the two others, which convert to different values, in order.
C16_Witness ==
    /\ last.op \in BatchOps
    /\ Len(last.arg) = 3
    /\ last.self[last.arg[1]] # None
    /\ last.self[last.arg[2]] = None
    /\ last.self[last.arg[3]] # None
    /\ last.self[last.arg[1]] # last.self[last.arg[3]]
    /\ last.ret.result = <<last.self[last.arg[1]], last.self[last.arg[3]]>>

\* C17: for all entities x and y, x == y exactly when x and y have the same
\* concrete class and the same name, whatever their memberships; and x == y
\* implies hash(x) = hash(y).
C17_EqualityByClassAndName ==
    last.op = "compare" =>
        /\ last.ret.eq <=> ( /\ Class(last.self) = Class(last.arg)
                             /\ name[last.self] = name[last.arg] )
        /\ last.ret.eq => last.ret.hash_self = last.ret.hash_other

\* C17 witness: two different tools with one name, only one of them in a
\* group, compared equal; or a tool and a resource with one name compared
\* unequal.
C17_Witness ==
    /\ last.op = "compare"
    /\ last.self # last.arg
    /\ name[last.self] = name[last.arg]
    /\ \/ /\ last.self \in Tools /\ last.arg \in Tools
          /\ parent_groups[last.self] # parent_groups[last.arg]
          /\ last.ret.eq
       \/ /\ last.self \in Tools /\ last.arg \in Resources
          /\ ~last.ret.eq

\* C18: a constructor call with name None raises ValueError and yields no
\* entity; leaf.add_parent_group(None) and prompt.add_prompt_argument(None)
\* raise ValueError and leave parent_groups and prompt_arguments as they were.
C18_MissingReferenceFails ==
    [][( /\ last'.op \in {"__init__", "add_parent_group", "add_prompt_argument"}
         /\ last'.arg = None )
       => ( /\ last'.exc = "ValueError"
            /\ last'.op = "__init__" => name'[last'.self] = Unbuilt
            /\ UNCHANGED <<name, name_separator, parent, child_groups, child_tools,
                           child_prompts, child_resources, parent_groups,
                           prompt_arguments>> )]_vars

\* C18 witness: a call given None has raised ValueError while a leaf has a
\* parent group and a prompt has an argument.
C18_Witness ==
    /\ last.op \in {"__init__", "add_parent_group", "add_prompt_argument"}
    /\ last.arg = None
    /\ last.exc = "ValueError"
    /\ \E l \in Leaves : parent_groups[l] # <<>>
    /\ \E p \in Prompts : prompt_arguments[p] # <<>>

\* C20: for every leaf, get_parent_group_roots() returns a sequence as long as
\* parent_groups whose i-th element is the root of the tree of the i-th parent
\* group (its ancestor, or itself, whose parent is None); the call changes no
\* state.
C20_ParentGroupRoots ==
    [][\A leaf \in Leaves :
         ( /\ last'.op = "get_parent_group_roots"
           /\ last'.self = leaf )
         => ( /\ UNCHANGED <<name, name_separator, parent, child_groups, child_tools,
                             child_prompts, child_resources, parent_groups,
                             prompt_arguments>>
              /\ last'.exc = ""
              /\ Len(last'.ret) = Len(parent_groups[leaf])
              /\ \A i \in 1..Len(parent_groups[leaf]) :
                    /\ parent[last'.ret[i]] = None
                    /\ \E n \in 0..Cardinality(Groups) :
                          Ancestor(parent_groups[leaf][i], n) = last'.ret[i] )]_vars

\* C21: p1.remove_child_group(c) clears c.parent whenever c is found in
\* p1.child_groups, whichever group c.parent points to: when c.parent is a
\* different group p2 that lists c (after p1.add_child_group(c);
\* p2.add_child_group(c)), the call leaves c.parent None and c still a member
\* of p2.child_groups.
C21_RemoveClearsForeignParent ==
    [][\A p1 \in Groups, p2 \in Groups, c \in Groups :
         ( /\ p1 # p2
           /\ Member(child_groups[p1], c)
           /\ Member(child_groups[p2], c)
           /\ parent[c] = p2
           /\ last'.op = "remove_child_group"
           /\ last'.self = p1
           /\ last'.arg = c )
         => ( /\ last'.ret = TRUE
              /\ parent'[c] = None
              /\ Member(child_groups'[p2], c) )]_vars

\* C21 witness: a group was removed from one parent's list, has no parent, and
\* is still listed by another group.
C21_Witness ==
    /\ last.op = "remove_child_group"
    /\ last.ret = TRUE
    /\ parent[last.arg] = None
    /\ ~Member(child_groups[last.self], last.arg)
    /\ \E p2 \in Groups \ {last.self, last.arg} : Member(child_groups[p2], last.arg)

AddChildOps == {"add_child_group", "add_child_tool", "add_child_prompt",
                "add_child_resource"}

\* C22: when add_child_group, add_child_tool, add_child_prompt or
\* add_child_resource is called with None, the call raises and the four child
\* collections of the group hold exactly the elements they held before the
\* call: no None entry is left behind.
C22_FailingAddChangesNothing ==
    [][\A g \in Groups :
         ( /\ last'.op \in AddChildOps
           /\ last'.self = g
           /\ last'.arg = None )
         => ( /\ last'.exc # ""
              /\ child_groups'[g] = child_groups[g]
              /\ child_tools'[g] = child_tools[g]
              /\ child_prompts'[g] = child_prompts[g]
              /\ child_resources'[g] = child_resources[g] )]_vars

\* the name separators groups are built with
Separators == {name_separator[g] : g \in Groups}

\* the names of a non-empty path joined with seps[i] between the i-th and the
\* (i+1)-th name
RECURSIVE JoinNamesWith(_, _)
JoinNamesWith(path, seps) ==
    IF Len(path) = 1 THEN name[path[1]]
    ELSE JoinNamesWith(SubSeq(path, 1, Len(path) - 1), seps)
           \o seps[Len(path) - 1] \o name[path[Len(path)]]

\* C23: g.get_fully_qualified_name() joins every level of the path with the
\* name separator of g, the group it was called on, and never with the
\* separator of an ancestor: among all ways to put separators between the
\* names of the path, the result is the one, and only the one, that has g's
\* separator at every joint.
C23_OnlyReceiverSeparator ==
    (last.op = "get_fully_qualified_name" /\ Acyclic(last.self)) =>
        /\ last.exc = ""
        /\ LET path == PathFromRoot(last.self) IN
           \A seps \in [1..(Len(path) - 1) -> Separators] :
               (last.ret = JoinNamesWith(path, seps))
                   <=> (\A i \in 1..(Len(path) - 1) : seps[i] = name_separator[last.self])

\* C23 witness: G3, built with separator "/", under G2 under G1, both built
\* with ".", gave "a/b/c".
C23_Witness ==
    /\ last.op = "get_fully_qualified_name"
    /\ last.self = "G3"
    /\ parent["G3"] = "G2" /\ parent["G2"] = "G1" /\ parent["G1"] = None
    /\ name = DistinctNames
    /\ name_separator = MixedSeparators
    /\ last.ret = "a/b/c"

====
